---- MODULE Spec2Model ----
(***************************************************************************)
(* Model of the Stepper compound component: the shared step state owned by *)
(* Stepper.jsx (registry `steps`, `currentStep`, `completedSteps`), the     *)
(* Step units of Step.jsx that register themselves and render only while   *)
(* active, and the indicator list of StepList.jsx with its keyboard focus. *)
(* One action is one React event: the handler, the re-render and the       *)
(* effects that the re-render schedules.                                   *)
(***************************************************************************)
EXTENDS Integers, Sequences, FiniteSets, TLC

\* ---------------------------------------------------------------- bounds
MaxIds == 3             \* distinct step identities a caller supplies
MaxPos == 2             \* largest `index` prop a caller supplies
MaxUnits == 2           \* Step units mounted with caller-chosen positions
MaxMarked == 2          \* markStepCompleted is called while fewer are completed
MaxBelow == 2           \* the smallest `initialStep` prop a caller supplies is -MaxBelow

IdNames == <<"a", "b", "c", "d", "e", "f">>
StepIds == {IdNames[i] : i \in 1..MaxIds}
DefaultLabel == "Step"
Labels == {DefaultLabel, "Other"}
Positions == 0..MaxPos
InitialSteps == (-MaxBelow)..MaxPos
Targets == -1..(MaxPos + 1)
Units == 1..MaxIds
Keys == {"ArrowLeft", "ArrowRight", "Home", "End", "Enter", " ", "a"}

NoUnit == [id |-> "-", index |-> -1, label |-> "-", onEnter |-> FALSE, onExit |-> FALSE]
NoFocus == "-"

VARIABLES
  steps,            \* Stepper.jsx: useState([])           registry
  currentStep,      \* Stepper.jsx: useState(initialStep)  ActivePosition
  completedSteps,   \* Stepper.jsx: useState(new Set())    CompletedSet
  onStepChange,     \* Stepper.jsx: prop, TRUE when a callback is supplied
  units,            \* Step.jsx: props of each mounted Step unit
  focused,          \* StepList.jsx: key (step id) of the indicator holding focus
  stepChangeCalls,  \* arguments of the onStepChange calls of the last event
  lastOp,           \* the operation the last event performed
  contextValue,     \* Stepper.jsx: the memoised value handed to the Provider
  useStepperResult, \* StepperContext.jsx: outcome of the last useStepper() call
  previousActiveState,  \* Step.jsx: useRef(isActive) of each Step unit
  lifecycleCalls,   \* the onEnter/onExit calls each unit made in the last event
  lastCallback,     \* the last of its callbacks each mounted unit has called
  navigationCalls   \* Navigation: the onNext/onPrevious calls of the last event

vars == <<steps, currentStep, completedSteps, onStepChange, units, focused,
          stepChangeCalls, lastOp, contextValue, useStepperResult,
          previousActiveState, lifecycleCalls, lastCallback, navigationCalls>>

Op(name, id, index) == [op |-> name, id |-> id, index |-> index]

\* ------------------------------------------------------- Stepper.jsx
\* prev.find(s => s.id === stepId)
existing(prev, stepId) == \E i \in DOMAIN prev : prev[i].id = stepId

\* one insertion of the stable Array.prototype.sort((a, b) => a.index - b.index)
RECURSIVE insertSorted(_, _)
insertSorted(sorted, e) ==
  IF sorted = <<>> THEN <<e>>
  ELSE IF sorted[Len(sorted)].index - e.index > 0
       THEN Append(insertSorted(SubSeq(sorted, 1, Len(sorted) - 1), e),
                   sorted[Len(sorted)])
       ELSE Append(sorted, e)

sortNoop(s) == s

RECURSIVE sort(_)
sort(s) ==
  IF s = <<>> THEN <<>>
  ELSE insertSorted(sort(SubSeq(s, 1, Len(s) - 1)), s[Len(s)])

registerStepAlways(prev, stepId, stepData) ==
  sort(Append(prev, [id |-> stepId, index |-> stepData.index,
                     label |-> stepData.label]))

registerStepUpdating(prev, stepId, stepData) ==
  sort(Append(SelectSeq(prev, LAMBDA s : s.id # stepId),
              [id |-> stepId, index |-> stepData.index, label |-> stepData.label]))

registerStep(prev, stepId, stepData) ==
  IF existing(prev, stepId) THEN prev
  ELSE sort(Append(prev, [id |-> stepId, index |-> stepData.index,
                          label |-> stepData.label]))

unregisterStepNoop(prev, stepId) == prev

unregisterStepInverted(prev, stepId) == SelectSeq(prev, LAMBDA s : s.id = stepId)

unregisterStep(prev, stepId) == SelectSeq(prev, LAMBDA s : s.id # stepId)

\* the guard of goToStep, over the registry length its closure captured
goToStepNoLowerBound(stepIndex, length) == stepIndex < length
goToStepNoUpperBound(stepIndex, length) == stepIndex >= 0
goToStepOffByOne(stepIndex, length) == stepIndex >= 0 /\ stepIndex < length - 1

goToStepAccepts(stepIndex, length) == stepIndex >= 0 /\ stepIndex < length

\* goToStep: the position and the onStepChange calls it leaves
goToStepPosition(stepIndex, cur, length) ==
  IF goToStepAccepts(stepIndex, length) THEN stepIndex ELSE cur

goToStepCallsOnChange(stepIndex, length) ==
  IF goToStepAccepts(stepIndex, length) /\ onStepChange /\ stepIndex # currentStep
  THEN <<stepIndex>> ELSE <<>>

goToStepCalls(stepIndex, length) ==
  IF goToStepAccepts(stepIndex, length) /\ onStepChange THEN <<stepIndex>> ELSE <<>>

goToNextNotLast(cur, length) == cur # length - 1

goToNextGuard(cur, length) == cur < length - 1

goToPreviousAboveOne(cur) == cur > 1

goToPreviousGuard(cur) == cur > 0

addCompletedOnly(prev, stepIndex) == {stepIndex}
addCompletedTarget(prev, stepIndex) == prev \cup {stepIndex + 1}

\* new Set([...prev, stepIndex])
addCompleted(prev, stepIndex) == prev \cup {stepIndex}

isStepCompleted(stepIndex) == stepIndex \in completedSteps

totalSteps == Len(steps)
isFirstStep == currentStep = 0
isLastStepPastEnd == currentStep = Len(steps)

isLastStep == currentStep = Len(steps) - 1

contextDepsNoSteps == <<currentStep, completedSteps>>

\* the state among the dependencies of useMemo (the callbacks in the array
\* change only when steps.length, currentStep or completedSteps change)
contextDeps == <<currentStep, steps, completedSteps>>

\* ------------------------------------------------------- Navigation
\* what an interception callback returns, "absent" when none is supplied
Returned == {"absent", "undefined", "true", "false"}

proceedsUnlessFalse(returned) == returned # "false"

\* the default trigger navigates whatever the interception callback returned
proceeds(returned) == TRUE

\* the call the default trigger makes to the callback, if present, with the
\* current position
intercept(callback, returned) ==
  IF returned = "absent" THEN <<>>
  ELSE <<[callback |-> callback, position |-> currentStep]>>

\* ------------------------------------------------------- Step.jsx
isActiveAtOrBelow(u) == units[u] # NoUnit /\ currentStep >= units[u].index

\* const isActive = currentStep === index
isActive(u) == units[u] # NoUnit /\ currentStep = units[u].index

\* Step renders its panel only when active (if (!isActive) return null)
rendersContent(u) == isActive(u)

\* the children prop of a Step: a function of the status record, or content
Children == {"function", "content"}

renderContentNotCompleted(u, children) ==
  IF children = "function"
  THEN [called |-> <<[isActive |-> isActive(u), isCompleted |-> FALSE,
                      index |-> units[u].index, label |-> units[u].label]>>,
        renders |-> "returned"]
  ELSE [called |-> <<>>, renders |-> children]

\* renderContent: a function child is called with the status record and its
\* result rendered, other children are rendered as they are
renderContent(u, children) ==
  IF children = "function"
  THEN [called |-> <<[isActive |-> isActive(u),
                      isCompleted |-> isStepCompleted(units[u].index),
                      index |-> units[u].index, label |-> units[u].label]>>,
        renders |-> "returned"]
  ELSE [called |-> <<>>, renders |-> children]

\* what the Step unit u renders: null while inactive, else its content
Step(u, children) ==
  IF ~isActive(u) THEN [called |-> <<>>, renders |-> "null"]
  ELSE renderContent(u, children)

\* id={`step-panel-${index}`} and aria-labelledby={`step-${index}`} of the
\* panel of unit u, from its index prop
panelId(u) == <<"step-panel-", units[u].index>>
ariaLabelledby(u) == <<"step-", units[u].index>>

lifecycleEffectStaleRef(active, previous, onEnter, onExit) ==
  [calls |-> IF active /\ ~previous /\ onEnter THEN <<"onEnter">>
             ELSE IF ~active /\ previous /\ onExit THEN <<"onExit">>
             ELSE <<>>,
   previous |-> previous]

\* the effect with deps [isActive, onEnter, onExit]: the callback it calls
\* and the value it leaves in previousActiveState.current
lifecycleEffect(active, previous, onEnter, onExit) ==
  [calls |-> IF active /\ ~previous /\ onEnter THEN <<"onEnter">>
             ELSE IF ~active /\ previous /\ onExit THEN <<"onExit">>
             ELSE <<>>,
   previous |-> active]

effectOfInitiallyInactive(u) ==
  lifecycleEffect(isActive(u)',
                  IF units[u] = NoUnit THEN FALSE ELSE previousActiveState[u],
                  units'[u].onEnter, units'[u].onExit)

\* the lifecycle effect of unit u runs after the re-render when the unit has
\* just mounted and when its dependency isActive changed
runsEffect(u) ==
  units'[u] # NoUnit /\ (units[u] = NoUnit \/ isActive(u)' # isActive(u))

\* what it does: a unit that has just mounted starts from useRef(isActive)
effectOf(u) ==
  lifecycleEffect(isActive(u)',
                  IF units[u] = NoUnit THEN isActive(u)' ELSE previousActiveState[u],
                  units'[u].onEnter, units'[u].onExit)

\* the effects of the Step units after the re-render
StepEffects ==
  IF units' = units /\ currentStep' = currentStep
  THEN /\ lifecycleCalls' = [u \in Units |-> <<>>]
       /\ UNCHANGED <<previousActiveState, lastCallback>>
  ELSE /\ lifecycleCalls' = [u \in Units |->
                               IF runsEffect(u) THEN effectOf(u).calls ELSE <<>>]
       /\ previousActiveState' = [u \in Units |->
                                    IF units'[u] = NoUnit THEN FALSE
                                    ELSE IF runsEffect(u) THEN effectOf(u).previous
                                    ELSE previousActiveState[u]]
       /\ lastCallback' = [u \in Units |->
                             IF units'[u] = NoUnit \/ units[u] = NoUnit THEN "-"
                             ELSE IF lifecycleCalls'[u] # <<>> THEN lifecycleCalls'[u][1]
                             ELSE lastCallback[u]]

\* the re-render after an event: useMemo recomputes the context value when a
\* dependency changed; the event made no useStepper() call
RerenderProvider ==
  /\ contextValue' = IF contextDeps' # contextDeps
                     THEN [totalSteps |-> totalSteps', isFirstStep |-> isFirstStep',
                           isLastStep |-> isLastStep']
                     ELSE contextValue
  /\ useStepperResult' = [error |-> "-", context |-> <<>>]
  /\ StepEffects

\* the re-render after an event that did not go through a Navigation trigger
Rerender ==
  /\ RerenderProvider
  /\ navigationCalls' = <<>>

\* ------------------------------------------------------- StepperContext.jsx
\* useContext(StepperContext): the Provider's value inside a Stepper, else the
\* default null of createContext(null), modelled as the empty sequence
useContext(inside) == IF inside THEN <<contextValue>> ELSE <<>>

useStepperUnchecked(context) == [error |-> "-", context |-> context]

useStepper(context) ==
  IF context = <<>>
  THEN [error |-> "useStepper must be used within a Stepper component",
        context |-> <<>>]
  ELSE [error |-> "-", context |-> context]

\* ------------------------------------------------------- StepList.jsx
stepIdsOf(s) == {s[i].id : i \in DOMAIN s}

indexOfKeyOneBased(s, id) == CHOOSE i \in DOMAIN s : s[i].id = id

\* index of the indicator rendered with key `id` (steps.map((step, index) => ...))
indexOfKey(s, id) == (CHOOSE i \in DOMAIN s : s[i].id = id) - 1

focusAfterKeeping(newCur, newSteps, keptFocus) ==
  IF keptFocus \in stepIdsOf(newSteps) THEN keptFocus ELSE NoFocus

\* the focus effect (deps [currentStep]) after the re-render; an indicator
\* that left the list loses the focus
focusAfter(newCur, newSteps, keptFocus) ==
  IF newCur # currentStep /\ newCur >= 0 /\ newCur < Len(newSteps)
  THEN newSteps[newCur + 1].id
  ELSE IF keptFocus \in stepIdsOf(newSteps) THEN keptFocus ELSE NoFocus

activationKeysEnterOnly == {"Enter"}
activationKeysWithArrows == {"Enter", " ", "ArrowLeft", "ArrowRight"}

\* case 'Enter': case ' ': setCurrentStep(index)
activationKeys == {"Enter", " "}

newIndexWrapping(key, index, length) ==
  CASE key = "ArrowLeft" -> IF index > 0 THEN index - 1 ELSE length - 1
    [] key = "ArrowRight" -> IF index < length - 1 THEN index + 1 ELSE 0
    [] key = "Home" -> 0
    [] key = "End" -> length - 1
    [] OTHER -> index

newIndexDefaultHome(key, index, length) ==
  CASE key = "ArrowLeft" -> IF index > 0 THEN index - 1 ELSE index
    [] key = "ArrowRight" -> IF index < length - 1 THEN index + 1 ELSE index
    [] key = "Home" -> 0
    [] key = "End" -> length - 1
    [] OTHER -> 0

newIndexHomeEndSwapped(key, index, length) ==
  CASE key = "ArrowLeft" -> IF index > 0 THEN index - 1 ELSE index
    [] key = "ArrowRight" -> IF index < length - 1 THEN index + 1 ELSE index
    [] key = "Home" -> length - 1
    [] key = "End" -> 0
    [] OTHER -> index

\* handleKeyDown: the index the switch computes for the focus-movement keys
newIndex(key, index, length) ==
  CASE key = "ArrowLeft" -> IF index > 0 THEN index - 1 ELSE index
    [] key = "ArrowRight" -> IF index < length - 1 THEN index + 1 ELSE index
    [] key = "Home" -> 0
    [] key = "End" -> length - 1
    [] OTHER -> index

\* aria-selected={isActive} of the indicator at `index`
ariaSelected(index) == currentStep = index

indicatorsReversed ==
  [k \in 1..Len(steps) |-> [key |-> steps[Len(steps) - k + 1].id, index |-> k - 1,
                            label |-> steps[Len(steps) - k + 1].label]]

\* steps.map((step, index) => defaultRenderStep(step, index)): the indicators
\* in the order rendered, with their key, index and label
indicators ==
  [k \in 1..Len(steps) |-> [key |-> steps[k].id, index |-> k - 1,
                            label |-> steps[k].label]]

\* aria-controls={`step-panel-${index}`} and id={`step-${index}`} of the
\* indicator at array position `index`
ariaControls(index) == <<"step-panel-", index>>
indicatorId(index) == <<"step-", index>>

tabIndexAlwaysZero(index) == 0

\* tabIndex={isActive ? 0 : -1} of the indicator at `index`
tabIndex(index) == IF currentStep = index THEN 0 ELSE -1

\* ---------------------------------------------------------------- Init
Init ==
  /\ steps = <<>>
  /\ currentStep \in InitialSteps
  /\ completedSteps = {}
  /\ onStepChange \in BOOLEAN
  /\ units = [u \in Units |-> NoUnit]
  /\ focused = NoFocus
  /\ stepChangeCalls = <<>>
  /\ lastOp = Op("init", "-", 0)
  /\ contextValue = [totalSteps |-> totalSteps, isFirstStep |-> isFirstStep,
                     isLastStep |-> isLastStep]
  /\ useStepperResult = [error |-> "-", context |-> <<>>]
  /\ previousActiveState = [u \in Units |-> FALSE]
  /\ lifecycleCalls = [u \in Units |-> <<>>]
  /\ lastCallback = [u \in Units |-> "-"]
  /\ navigationCalls = <<>>

\* ---------------------------------------------------------------- actions
\* a consumer calls registerStep(stepId, {label, index}) through the context
RegisterStep(stepId, index, label) ==
  /\ steps' = registerStep(steps, stepId, [index |-> index, label |-> label])
  /\ focused' = focusAfter(currentStep, steps', focused)
  /\ stepChangeCalls' = <<>>
  /\ lastOp' = Op("registerStep", stepId, index)
  /\ UNCHANGED <<currentStep, completedSteps, onStepChange, units>>
  /\ Rerender

\* a consumer calls unregisterStep(stepId) through the context
UnregisterStep(stepId) ==
  /\ steps' = unregisterStep(steps, stepId)
  /\ focused' = focusAfter(currentStep, steps', focused)
  /\ stepChangeCalls' = <<>>
  /\ lastOp' = Op("unregisterStep", stepId, Len(steps))
  /\ UNCHANGED <<currentStep, completedSteps, onStepChange, units>>
  /\ Rerender

\* a Step unit mounts: its effect registers it
MountStep(u, stepId, index, label, onEnter, onExit) ==
  /\ units[u] = NoUnit
  /\ units' = [units EXCEPT ![u] = [id |-> stepId, index |-> index, label |-> label,
                                    onEnter |-> onEnter, onExit |-> onExit]]
  /\ steps' = registerStep(steps, stepId, [index |-> index, label |-> label])
  /\ focused' = focusAfter(currentStep, steps', focused)
  /\ stepChangeCalls' = <<>>
  /\ lastOp' = Op("mount", stepId, index)
  /\ UNCHANGED <<currentStep, completedSteps, onStepChange>>
  /\ Rerender

\* a mounted Step unit re-renders with another id, index or label: the
\* cleanup of its register effect (deps [id, label, index, ...]) unregisters
\* the previous id and the effect registers the new props
UpdateStep(u, stepId, index, label) ==
  /\ units[u] # NoUnit
  /\ <<stepId, index, label>> # <<units[u].id, units[u].index, units[u].label>>
  /\ units' = [units EXCEPT ![u] = [id |-> stepId, index |-> index, label |-> label,
                                    onEnter |-> units[u].onEnter,
                                    onExit |-> units[u].onExit]]
  /\ steps' = registerStep(unregisterStep(steps, units[u].id), stepId,
                           [index |-> index, label |-> label])
  /\ focused' = focusAfter(currentStep, steps', focused)
  /\ stepChangeCalls' = <<>>
  /\ lastOp' = Op("update", units[u].id, u)
  /\ UNCHANGED <<currentStep, completedSteps, onStepChange>>
  /\ Rerender

UnmountStepClamping(u) ==
  /\ units[u] # NoUnit
  /\ units' = [units EXCEPT ![u] = NoUnit]
  /\ steps' = unregisterStep(steps, units[u].id)
  /\ currentStep' = IF currentStep >= Len(steps') /\ Len(steps') > 0
                    THEN Len(steps') - 1 ELSE currentStep
  /\ focused' = focusAfter(currentStep', steps', focused)
  /\ stepChangeCalls' = <<>>
  /\ lastOp' = Op("unmount", units[u].id, units[u].index)
  /\ UNCHANGED <<completedSteps, onStepChange>>
  /\ Rerender

\* a Step unit unmounts: the effect's cleanup unregisters it
UnmountStep(u) ==
  /\ units[u] # NoUnit
  /\ units' = [units EXCEPT ![u] = NoUnit]
  /\ steps' = unregisterStep(steps, units[u].id)
  /\ focused' = focusAfter(currentStep, steps', focused)
  /\ stepChangeCalls' = <<>>
  /\ lastOp' = Op("unmount", units[u].id, units[u].index)
  /\ UNCHANGED <<currentStep, completedSteps, onStepChange>>
  /\ Rerender

\* a consumer calls setCurrentStep(stepIndex)
GoToStep(stepIndex) ==
  /\ currentStep' = goToStepPosition(stepIndex, currentStep, Len(steps))
  /\ stepChangeCalls' = goToStepCalls(stepIndex, Len(steps))
  /\ focused' = focusAfter(currentStep', steps, focused)
  /\ lastOp' = Op("goToStep", "-", stepIndex)
  /\ UNCHANGED <<steps, completedSteps, onStepChange, units>>
  /\ Rerender

\* goToNext
GoToNext ==
  /\ IF goToNextGuard(currentStep, Len(steps))
     THEN /\ completedSteps' = addCompleted(completedSteps, currentStep)
          /\ currentStep' = goToStepPosition(currentStep + 1, currentStep, Len(steps))
          /\ stepChangeCalls' = goToStepCalls(currentStep + 1, Len(steps))
     ELSE /\ UNCHANGED <<completedSteps, currentStep>>
          /\ stepChangeCalls' = <<>>
  /\ focused' = focusAfter(currentStep', steps, focused)
  /\ lastOp' = Op("goToNext", "-", currentStep)
  /\ UNCHANGED <<steps, onStepChange, units>>
  /\ Rerender

GoToPreviousUnmarking ==
  /\ IF goToPreviousGuard(currentStep)
     THEN /\ currentStep' = goToStepPosition(currentStep - 1, currentStep, Len(steps))
          /\ stepChangeCalls' = goToStepCalls(currentStep - 1, Len(steps))
          /\ completedSteps' = completedSteps \ {currentStep - 1}
     ELSE /\ UNCHANGED <<currentStep, completedSteps>>
          /\ stepChangeCalls' = <<>>
  /\ focused' = focusAfter(currentStep', steps, focused)
  /\ lastOp' = Op("goToPrevious", "-", currentStep)
  /\ UNCHANGED <<steps, onStepChange, units>>
  /\ Rerender

\* goToPrevious
GoToPrevious ==
  /\ IF goToPreviousGuard(currentStep)
     THEN /\ currentStep' = goToStepPosition(currentStep - 1, currentStep, Len(steps))
          /\ stepChangeCalls' = goToStepCalls(currentStep - 1, Len(steps))
     ELSE /\ UNCHANGED currentStep
          /\ stepChangeCalls' = <<>>
  /\ focused' = focusAfter(currentStep', steps, focused)
  /\ lastOp' = Op("goToPrevious", "-", currentStep)
  /\ UNCHANGED <<steps, completedSteps, onStepChange, units>>
  /\ Rerender

MarkStepCompletedInRange(stepIndex) ==
  /\ Cardinality(completedSteps) < MaxMarked
  /\ completedSteps' = IF stepIndex >= 0 /\ stepIndex < Len(steps)
                       THEN addCompleted(completedSteps, stepIndex)
                       ELSE completedSteps
  /\ stepChangeCalls' = <<>>
  /\ lastOp' = Op("markStepCompleted", "-", stepIndex)
  /\ UNCHANGED <<steps, currentStep, onStepChange, units, focused>>
  /\ Rerender

\* two goToNext() calls made by one event handler: both run the goToNext
\* closure of the last render, with its currentStep and steps.length
GoToNextTwice ==
  /\ IF goToNextGuard(currentStep, Len(steps))
     THEN /\ completedSteps' = addCompleted(addCompleted(completedSteps, currentStep),
                                            currentStep)
          /\ currentStep' = goToStepPosition(currentStep + 1, currentStep, Len(steps))
          /\ stepChangeCalls' = goToStepCalls(currentStep + 1, Len(steps))
                                  \o goToStepCalls(currentStep + 1, Len(steps))
     ELSE /\ UNCHANGED <<completedSteps, currentStep>>
          /\ stepChangeCalls' = <<>>
  /\ focused' = focusAfter(currentStep', steps, focused)
  /\ lastOp' = Op("goToNextTwice", "-", currentStep)
  /\ UNCHANGED <<steps, onStepChange, units>>
  /\ Rerender

\* the user activates the default next trigger, enabled unless isLastStep:
\* it calls onNext(currentStep), if supplied, and then goToNext()
ClickNext(returned) ==
  /\ ~contextValue.isLastStep
  /\ navigationCalls' = intercept("onNext", returned)
  /\ IF proceeds(returned) /\ goToNextGuard(currentStep, Len(steps))
     THEN /\ completedSteps' = addCompleted(completedSteps, currentStep)
          /\ currentStep' = goToStepPosition(currentStep + 1, currentStep, Len(steps))
          /\ stepChangeCalls' = goToStepCalls(currentStep + 1, Len(steps))
     ELSE /\ UNCHANGED <<completedSteps, currentStep>>
          /\ stepChangeCalls' = <<>>
  /\ focused' = focusAfter(currentStep', steps, focused)
  /\ lastOp' = Op("clickNext", returned, currentStep)
  /\ UNCHANGED <<steps, onStepChange, units>>
  /\ RerenderProvider

\* the user activates the default previous trigger, enabled unless
\* isFirstStep: it calls onPrevious(currentStep), if supplied, and then
\* goToPrevious()
ClickPrevious(returned) ==
  /\ ~contextValue.isFirstStep
  /\ navigationCalls' = intercept("onPrevious", returned)
  /\ IF proceeds(returned) /\ goToPreviousGuard(currentStep)
     THEN /\ currentStep' = goToStepPosition(currentStep - 1, currentStep, Len(steps))
          /\ stepChangeCalls' = goToStepCalls(currentStep - 1, Len(steps))
     ELSE /\ UNCHANGED currentStep
          /\ stepChangeCalls' = <<>>
  /\ focused' = focusAfter(currentStep', steps, focused)
  /\ lastOp' = Op("clickPrevious", returned, currentStep)
  /\ UNCHANGED <<steps, completedSteps, onStepChange, units>>
  /\ RerenderProvider

\* markStepCompleted
MarkStepCompleted(stepIndex) ==
  /\ Cardinality(completedSteps) < MaxMarked
  /\ completedSteps' = addCompleted(completedSteps, stepIndex)
  /\ stepChangeCalls' = <<>>
  /\ lastOp' = Op("markStepCompleted", "-", stepIndex)
  /\ UNCHANGED <<steps, currentStep, onStepChange, units, focused>>
  /\ Rerender

\* the user moves the input focus onto the indicator at `index`
FocusIndicator(index) ==
  /\ index < Len(steps)
  /\ focused' = steps[index + 1].id
  /\ stepChangeCalls' = <<>>
  /\ lastOp' = Op("focus", "-", index)
  /\ UNCHANGED <<steps, currentStep, completedSteps, onStepChange, units>>
  /\ Rerender

\* handleKeyDown(e, index) on the focused indicator
KeyDown(key) ==
  /\ focused # NoFocus
  /\ LET index == indexOfKey(steps, focused) IN
     IF key \in activationKeys
     THEN /\ currentStep' = goToStepPosition(index, currentStep, Len(steps))
          /\ stepChangeCalls' = goToStepCalls(index, Len(steps))
          /\ focused' = focusAfter(currentStep', steps, focused)
          /\ lastOp' = Op("activateKey", key, index)
     ELSE /\ LET n == newIndex(key, index, Len(steps)) IN
             focused' = IF n # index /\ n >= 0 /\ n < Len(steps)
                        THEN steps[n + 1].id ELSE focused
          /\ stepChangeCalls' = <<>>
          /\ lastOp' = Op("focusKey", key, index)
          /\ UNCHANGED currentStep
  /\ UNCHANGED <<steps, completedSteps, onStepChange, units>>
  /\ Rerender

ClickIndicatorCompleting(index) ==
  /\ index < Len(steps)
  /\ currentStep' = goToStepPosition(index, currentStep, Len(steps))
  /\ stepChangeCalls' = goToStepCalls(index, Len(steps))
  /\ focused' = focusAfter(currentStep', steps, focused)
  /\ lastOp' = Op("click", "-", index)
  /\ completedSteps' = addCompleted(completedSteps, currentStep)
  /\ UNCHANGED <<steps, onStepChange, units>>
  /\ Rerender

\* handleStepClick(index) on the indicator at `index`
ClickIndicator(index) ==
  /\ index < Len(steps)
  /\ currentStep' = goToStepPosition(index, currentStep, Len(steps))
  /\ stepChangeCalls' = goToStepCalls(index, Len(steps))
  /\ focused' = focusAfter(currentStep', steps, focused)
  /\ lastOp' = Op("click", "-", index)
  /\ UNCHANGED <<steps, completedSteps, onStepChange, units>>
  /\ Rerender

\* a consumer component calls useStepper() while it renders, inside the
\* subtree of the Stepper or outside of any Stepper
UseStepper(inside) ==
  /\ useStepperResult' = useStepper(useContext(inside))
  /\ stepChangeCalls' = <<>>
  /\ lastOp' = Op("useStepper", IF inside THEN "inside" ELSE "outside", 0)
  /\ UNCHANGED <<steps, currentStep, completedSteps, onStepChange, units, focused,
                 contextValue, previousActiveState, lifecycleCalls, lastCallback,
                 navigationCalls>>

\* the Stepper API in use: unit u has identity IdNames[u], the default label
\* and position u - 1; consumers call the operations of the context
Next ==
  \/ \E u \in Units : MountStep(u, IdNames[u], u - 1, DefaultLabel, FALSE, FALSE)
  \/ \E u \in Units : UnmountStep(u)
  \/ \E p \in Targets : GoToStep(p)
  \/ GoToNext
  \/ GoToPrevious

Spec == Init /\ [][Next]_vars

\* a Stepper created with initialStep = 0 (the default) and an onStepChange
InitList == Init /\ currentStep = 0 /\ onStepChange = TRUE

\* the whole widget: besides the operations of Next the user focuses, clicks
\* and presses keys on the indicators of the StepList
NextList ==
  \/ \E u \in Units : MountStep(u, IdNames[u], u - 1, DefaultLabel, FALSE, FALSE)
  \/ \E u \in Units : UnmountStep(u)
  \/ \E p \in Targets : GoToStep(p)
  \/ GoToNext
  \/ GoToPrevious
  \/ \E p \in Targets : MarkStepCompleted(p)
  \/ \E i \in 0..(MaxIds - 1) : FocusIndicator(i)
  \/ \E k \in Keys : KeyDown(k)
  \/ \E i \in 0..(MaxIds - 1) : ClickIndicator(i)

SpecList == InitList /\ [][NextList]_vars

\* Step units with any caller-supplied position; a component calls useStepper
\* inside or outside the Stepper
NextPositions ==
  \/ \E u \in 1..MaxUnits, i \in Positions : MountStep(u, IdNames[u], i, DefaultLabel, FALSE, FALSE)
  \/ \E u \in Units : UnmountStep(u)
  \/ \E p \in Targets : GoToStep(p)
  \/ GoToNext
  \/ GoToPrevious
  \/ \E inside \in BOOLEAN : UseStepper(inside)

SpecPositions == Init /\ [][NextPositions]_vars

\* the registry: consumers call registerStep and unregisterStep through the
\* context with any identity, position and label, and mark position 0 completed
NextRegistry ==
  \/ \E id \in StepIds, i \in Positions, l \in Labels : RegisterStep(id, i, l)
  \/ \E id \in StepIds : UnregisterStep(id)
  \/ MarkStepCompleted(0)

\* a Stepper created with its default props: initialStep = 0, no onStepChange
InitRegistry == Init /\ currentStep = 0 /\ onStepChange = FALSE

SpecRegistry == InitRegistry /\ [][NextRegistry]_vars

\* the identities other mounted units hold: callers keep identities unique
idsOfOthers(u) == {units[v].id : v \in {w \in Units : w # u /\ units[w] # NoUnit}}

\* Step units that mount, unmount and change their props while mounted
NextUnits ==
  \/ \E u \in 1..MaxUnits : \E id \in StepIds \ idsOfOthers(u), i \in Positions :
        MountStep(u, id, i, DefaultLabel, FALSE, FALSE)
  \/ \E u \in 1..MaxUnits : \E id \in StepIds \ idsOfOthers(u) :
        UpdateStep(u, id, units[u].index, units[u].label)
  \/ \E u \in 1..MaxUnits, i \in Positions :
        UpdateStep(u, units[u].id, i, units[u].label)
  \/ \E u \in 1..MaxUnits, l \in Labels :
        UpdateStep(u, units[u].id, units[u].index, l)
  \/ \E u \in Units : UnmountStep(u)

SpecUnits == InitRegistry /\ [][NextUnits]_vars

\* Step units with onEnter and onExit callbacks: unit u has identity
\* IdNames[u] and starts at position u - 1; a consumer navigates and the
\* units change their position
NextLifecycle ==
  \/ \E u \in 1..MaxUnits : MountStep(u, IdNames[u], u - 1, DefaultLabel, TRUE, TRUE)
  \/ \E u \in 1..MaxUnits, i \in Positions : UpdateStep(u, IdNames[u], i, DefaultLabel)
  \/ \E u \in Units : UnmountStep(u)
  \/ \E p \in Targets : GoToStep(p)

SpecLifecycle == InitRegistry /\ [][NextLifecycle]_vars

\* the Navigation triggers in use, and a consumer that marks positions
\* completed and whose handler calls goToNext() twice
NextNavigation ==
  \/ \E u \in Units : MountStep(u, IdNames[u], u - 1, DefaultLabel, FALSE, FALSE)
  \/ \E u \in Units : UnmountStep(u)
  \/ \E r \in Returned : ClickNext(r)
  \/ \E r \in Returned : ClickPrevious(r)
  \/ GoToNextTwice
  \/ \E p \in Targets : MarkStepCompleted(p)

SpecNavigation == Init /\ [][NextNavigation]_vars

\* ---------------------------------------------------------------- claims
mounted == {u \in Units : units[u] # NoUnit}
rendering == {u \in Units : rendersContent(u)}

\* the mounted units hold the positions 0..N-1, one each, and are the registry
positionsAreZeroToN ==
  /\ Cardinality(mounted) = Len(steps)
  /\ {units[u].index : u \in mounted} = 0..(Len(steps) - 1)
  /\ {units[u].id : u \in mounted} = stepIdsOf(steps)

\* C1 as stated: whenever N >= 1 steps are registered, exactly one Step unit
\* renders content and it is the step at registry position ActivePosition,
\* for any caller-supplied positions and initial position.
C1_ExactlyOneRendersAlways ==
  Len(steps) >= 1 =>
    /\ Cardinality(rendering) = 1
    /\ currentStep >= 0 /\ currentStep < Len(steps)
    /\ \A u \in rendering : steps[currentStep + 1].id = units[u].id

\* C1 amended: when the mounted units hold the positions 0..N-1, one each,
\* and 0 <= ActivePosition < N, exactly one Step unit renders content and it
\* is the step at registry position ActivePosition; when ActivePosition is
\* outside [0, N) in that layout no Step unit renders.
C1_ExactlyOneRendersInLayout ==
  (Len(steps) >= 1 /\ positionsAreZeroToN) =>
    IF currentStep >= 0 /\ currentStep < Len(steps)
    THEN /\ Cardinality(rendering) = 1
         /\ \A u \in rendering : steps[currentStep + 1].id = units[u].id
    ELSE rendering = {}

C1_Witness ==
  /\ Len(steps) = 2 /\ positionsAreZeroToN
  /\ lastOp.op = "goToNext" /\ currentStep = 1
  /\ units[1].index = 1 /\ rendering = {1}

\* C2: navigateTo(p) with p < 0 or p >= N leaves ActivePosition, the registry
\* and CompletedSet unchanged and makes no onStepChange call.
C2_OutOfRangeIgnored ==
  [][(lastOp'.op = "goToStep" /\ (lastOp'.index < 0 \/ lastOp'.index >= Len(steps)))
       => /\ currentStep' = currentStep
          /\ steps' = steps
          /\ completedSteps' = completedSteps
          /\ stepChangeCalls' = <<>>]_vars

C2_Witness ==
  /\ lastOp.op = "goToStep" /\ lastOp.index >= Len(steps)
  /\ Len(steps) >= 1 /\ onStepChange
  /\ completedSteps # {} /\ currentStep # lastOp.index
  /\ stepChangeCalls = <<>>

\* C3: navigateTo(p) with 0 <= p < N sets ActivePosition to p and calls
\* onStepChange, when supplied, exactly once with p; the registry and
\* CompletedSet are unchanged.
C3_InRangeNavigates ==
  [][(lastOp'.op = "goToStep" /\ lastOp'.index >= 0 /\ lastOp'.index < Len(steps))
       => /\ currentStep' = lastOp'.index
          /\ stepChangeCalls' = IF onStepChange THEN <<lastOp'.index>> ELSE <<>>
          /\ steps' = steps
          /\ completedSteps' = completedSteps]_vars

C3_Witness ==
  /\ lastOp.op = "goToStep" /\ lastOp.index = 2 /\ Len(steps) = 3
  /\ currentStep = 2 /\ stepChangeCalls = <<2>> /\ completedSteps # {}

\* C4: from every state with ActivePosition = p and p < N-1, after next()
\* CompletedSet contains p and ActivePosition equals p+1.
C4_NextAdvances ==
  [][(lastOp'.op = "goToNext" /\ currentStep < Len(steps) - 1)
       => /\ currentStep \in completedSteps'
          /\ currentStep' = currentStep + 1]_vars

\* the effect of navigateTo(t) on ActivePosition and the notification
navigatedTo(t) ==
  IF t >= 0 /\ t < Len(steps)
  THEN /\ currentStep' = t
       /\ stepChangeCalls' = IF onStepChange THEN <<t>> ELSE <<>>
  ELSE /\ currentStep' = currentStep
       /\ stepChangeCalls' = <<>>

nothingChanged ==
  /\ currentStep' = currentStep
  /\ completedSteps' = completedSteps
  /\ steps' = steps
  /\ stepChangeCalls' = <<>>

\* C5 as stated: next() changes nothing at the last position N-1, and in every
\* state where ActivePosition is not N-1 it adds the current position to
\* CompletedSet and then performs navigateTo(current + 1).
C5_NextUnlessLast ==
  [][lastOp'.op = "goToNext"
       => IF currentStep = Len(steps) - 1
          THEN nothingChanged
          ELSE /\ completedSteps' = completedSteps \cup {currentStep}
               /\ navigatedTo(currentStep + 1)
               /\ steps' = steps]_vars

\* C5 amended: next() changes nothing when ActivePosition >= N-1 (at or past
\* the last position), and in every state where ActivePosition < N-1 it adds
\* the current position to CompletedSet and then performs
\* navigateTo(current + 1).
C5_NextBelowLast ==
  [][lastOp'.op = "goToNext"
       => IF currentStep >= Len(steps) - 1
          THEN nothingChanged
          ELSE /\ completedSteps' = completedSteps \cup {currentStep}
               /\ navigatedTo(currentStep + 1)
               /\ steps' = steps]_vars

C5_Witness ==
  /\ lastOp.op = "goToNext" /\ lastOp.index > Len(steps) - 1
  /\ Len(steps) >= 1
  /\ currentStep = lastOp.index /\ lastOp.index \notin completedSteps
  /\ completedSteps # {}

\* C6: previous() changes nothing at position 0, and in every other state it
\* has exactly the effect of navigateTo(current - 1); so from p with
\* 0 < p <= N it leaves ActivePosition = p-1.
C6_PreviousIsNavigateTo ==
  [][lastOp'.op = "goToPrevious"
       => /\ IF currentStep = 0
             THEN nothingChanged
             ELSE /\ navigatedTo(currentStep - 1)
                  /\ steps' = steps
                  /\ completedSteps' = completedSteps
          /\ (0 < currentStep /\ currentStep <= Len(steps))
               => currentStep' = currentStep - 1]_vars

C6_Witness ==
  /\ lastOp.op = "goToPrevious" /\ lastOp.index = Len(steps)
  /\ Len(steps) = 2 /\ currentStep = 1
  /\ stepChangeCalls = <<1>>

\* C7: previous() never changes CompletedSet, whether or not ActivePosition
\* moved.
C7_PreviousKeepsCompleted ==
  [][lastOp'.op = "goToPrevious" => completedSteps' = completedSteps]_vars

C7_Witness ==
  /\ lastOp.op = "goToPrevious" /\ currentStep = lastOp.index - 1
  /\ currentStep \in completedSteps

\* C8: ActivePosition changes only in a navigateTo (called directly, by an
\* indicator, or through next/previous) whose target lies in [0, N);
\* registerStep, unregisterStep, markCompleted and the focus-movement keys
\* never change it.
C8_OnlyNavigateToMoves ==
  [][/\ currentStep' # currentStep
          => /\ lastOp'.op \in {"goToStep", "goToNext", "goToPrevious",
                                "activateKey", "click"}
             /\ currentStep' >= 0 /\ currentStep' < Len(steps)
     /\ lastOp'.op \in {"mount", "unmount", "markStepCompleted", "focusKey", "focus"}
          => currentStep' = currentStep]_vars

C8_Witness ==
  /\ lastOp.op = "activateKey" /\ lastOp.index = 2
  /\ currentStep = 2 /\ Len(steps) = 3
  /\ stepChangeCalls = <<2>> /\ completedSteps = {}

\* C9: after any sequence of registerStep and unregisterStep calls no two
\* registry entries share the same identity.
C9_UniqueIdentity ==
  \A i, j \in DOMAIN steps : steps[i].id = steps[j].id => i = j

C9_Witness ==
  /\ lastOp.op = "registerStep" /\ Len(steps) = 2
  /\ \E i \in DOMAIN steps :
       steps[i].id = lastOp.id /\ steps[i].index # lastOp.index

\* C10: after any sequence of registerStep and unregisterStep calls the
\* registry is sorted ascending by position.
C10_SortedByPosition ==
  \A i \in 1..(Len(steps) - 1) : steps[i].index <= steps[i + 1].index

C10_Witness ==
  /\ lastOp.op = "registerStep" /\ Len(steps) = 3
  /\ steps[1].id = lastOp.id /\ steps[1].index = lastOp.index
  /\ steps[1].index < steps[2].index /\ steps[2].index < steps[3].index
\* C11: registerStep with an identity already in the registry changes
\* nothing, whatever position and label it is called with.
C11_DuplicateRegisterIgnored ==
  [][(lastOp'.op = "registerStep" /\ lastOp'.id \in stepIdsOf(steps))
       => steps' = steps]_vars

C11_Witness ==
  /\ lastOp.op = "registerStep" /\ Len(steps) = 3
  /\ \E i \in DOMAIN steps :
       /\ steps[i].id = lastOp.id
       /\ steps[i].index # lastOp.index
       /\ steps[i].label # DefaultLabel

\* the sequence s without its k-th entry
without(s, k) == SubSeq(s, 1, k - 1) \o SubSeq(s, k + 1, Len(s))

\* C12: unregisterStep(id) removes exactly the entry with that identity and
\* keeps the others in their order; with no such entry the registry is
\* unchanged; CompletedSet is unchanged in both cases.
C12_UnregisterRemovesOne ==
  [][lastOp'.op = "unregisterStep"
       => /\ IF lastOp'.id \in stepIdsOf(steps)
             THEN \E k \in DOMAIN steps :
                    steps[k].id = lastOp'.id /\ steps' = without(steps, k)
             ELSE steps' = steps
          /\ completedSteps' = completedSteps]_vars

C12_Witness ==
  /\ lastOp.op = "unregisterStep" /\ lastOp.index = 3 /\ Len(steps) = 2
  /\ steps[1].index = steps[2].index
  /\ completedSteps # {}

\* C13: unmounting the active Step unit removes its entry from the registry
\* and leaves ActivePosition as it was, also when it is now >= the new length.
C13_UnmountActiveKeepsPosition ==
  [][(lastOp'.op = "unmount" /\ lastOp'.index = currentStep)
       => /\ currentStep' = currentStep
          /\ lastOp'.id \in stepIdsOf(steps)
          /\ lastOp'.id \notin stepIdsOf(steps')
          /\ Len(steps') = Len(steps) - 1]_vars

C13_Witness ==
  /\ lastOp.op = "unmount" /\ lastOp.index = currentStep
  /\ currentStep = 2 /\ Len(steps) = 2

\* C14: every step of every behaviour keeps all members of CompletedSet.
C14_CompletedOnlyGrows ==
  [][completedSteps \subseteq completedSteps']_vars

C14_Witness ==
  /\ lastOp.op = "goToPrevious" /\ currentStep = 0
  /\ completedSteps = {0, 1}

\* C15: after markCompleted(p), for any p, p is completed; ActivePosition, the
\* registry and the other members of CompletedSet are unchanged.
C15_MarkCompletedAdds ==
  [][lastOp'.op = "markStepCompleted"
       => /\ \E p \in Targets : p = lastOp'.index /\ isStepCompleted(p)'
          /\ \A q \in Targets \cup completedSteps :
               q # lastOp'.index => (isStepCompleted(q)' <=> q \in completedSteps)
          /\ completedSteps' \subseteq completedSteps \cup {lastOp'.index}
          /\ currentStep' = currentStep
          /\ steps' = steps]_vars

C15_Witness ==
  /\ lastOp.op = "markStepCompleted" /\ lastOp.index >= Len(steps)
  /\ Len(steps) >= 1
  /\ completedSteps = {0, lastOp.index}

\* C16: the derived flags handed to the consumers satisfy isFirstStep iff
\* ActivePosition = 0, isLastStep iff ActivePosition = N-1, totalSteps = N.
C16_DerivedFlags ==
  /\ contextValue.isFirstStep <=> currentStep = 0
  /\ contextValue.isLastStep <=> currentStep = Len(steps) - 1
  /\ contextValue.totalSteps = Len(steps)

C16_Witness ==
  /\ lastOp.op = "mount" /\ Len(steps) = 3 /\ currentStep = 2
  /\ contextValue.isLastStep /\ ~contextValue.isFirstStep

\* C17: with 3 steps at positions 0, 1, 2, ActivePosition 0 and an empty
\* CompletedSet, the first next() leaves position 1 and CompletedSet {0}, and
\* the second leaves position 2, CompletedSet {0, 1}, isFirstStep false and
\* isLastStep true.
C17_NextTwice ==
  [][(lastOp'.op = "goToNext" /\ Len(steps) = 3
        /\ \A i \in 1..3 : steps[i].index = i - 1)
       => /\ (currentStep = 0 /\ completedSteps = {})
               => (currentStep' = 1 /\ completedSteps' = {0})
          /\ (currentStep = 1 /\ completedSteps = {0})
               => /\ currentStep' = 2 /\ completedSteps' = {0, 1}
                  /\ ~contextValue'.isFirstStep
                  /\ contextValue'.isLastStep]_vars

C17_Witness ==
  /\ lastOp.op = "goToNext" /\ lastOp.index = 1 /\ Len(steps) = 3
  /\ currentStep = 2 /\ completedSteps = {0, 1}
  /\ contextValue.isLastStep /\ ~contextValue.isFirstStep

\* C18: useStepper() outside a Stepper raises the 'used without provider'
\* error and returns no handle; inside a Stepper it raises nothing and
\* returns the context value.
C18_UseStepperNeedsProvider ==
  lastOp.op = "useStepper" =>
    IF lastOp.id = "outside"
    THEN /\ useStepperResult.error = "useStepper must be used within a Stepper component"
         /\ useStepperResult.context = <<>>
    ELSE /\ useStepperResult.error = "-"
         /\ useStepperResult.context = <<contextValue>>

C18_Witness ==
  /\ lastOp.op = "useStepper" /\ lastOp.id = "outside"
  /\ useStepperResult.error # "-"
  /\ Len(steps) >= 1

\* C19: Enter or Space on the focused indicator at index i sets
\* ActivePosition to i; then the indicator at i is selected and no other is.
C19_EnterSpaceActivates ==
  [][(lastOp'.op \in {"activateKey", "focusKey"} /\ lastOp'.id \in {"Enter", " "})
       => /\ currentStep' = lastOp'.index
          /\ \A j \in 0..(Len(steps') - 1) :
               ariaSelected(j)' <=> j = lastOp'.index]_vars

C19_Witness ==
  /\ lastOp.op = "activateKey" /\ lastOp.id = " " /\ lastOp.index = 1
  /\ Len(steps) = 3 /\ currentStep = 1
  /\ ariaSelected(1) /\ ~ariaSelected(0) /\ ~ariaSelected(2)

focusedIndex == IF focused = NoFocus THEN -1 ELSE indexOfKey(steps, focused)

\* C20: ArrowLeft, ArrowRight, Home and End leave ActivePosition and
\* CompletedSet unchanged and make no onStepChange call; with 3 steps, focus
\* on indicator 0 and ActivePosition 0, End moves the focus to indicator 2
\* and ActivePosition stays 0, and Enter on indicator 2 makes it 2.
C20_FocusKeysDoNotActivate ==
  [][/\ (lastOp'.op \in {"activateKey", "focusKey"}
           /\ lastOp'.id \in {"ArrowLeft", "ArrowRight", "Home", "End"})
          => /\ currentStep' = currentStep
             /\ completedSteps' = completedSteps
             /\ stepChangeCalls' = <<>>
     /\ (lastOp'.id = "End" /\ Len(steps) = 3 /\ focusedIndex = 0 /\ currentStep = 0)
          => (focusedIndex' = 2 /\ currentStep' = 0)
     /\ (lastOp'.id = "Enter" /\ Len(steps) = 3 /\ focusedIndex = 2)
          => currentStep' = 2]_vars

C20_Witness ==
  /\ lastOp.op = "focusKey" /\ lastOp.id = "End" /\ lastOp.index = 0
  /\ Len(steps) = 3 /\ focusedIndex = 2 /\ currentStep = 0
  /\ completedSteps # {}
min(a, b) == IF a < b THEN a ELSE b
max(a, b) == IF a > b THEN a ELSE b

\* C21: with N indicators and the focus on index i, ArrowRight moves the focus
\* to min(i+1, N-1) and ArrowLeft to max(i-1, 0): no wraparound at the ends.
C21_ArrowsClamp ==
  [][/\ (lastOp'.op \in {"activateKey", "focusKey"} /\ lastOp'.id = "ArrowRight")
          => focusedIndex' = min(focusedIndex + 1, Len(steps) - 1)
     /\ (lastOp'.op \in {"activateKey", "focusKey"} /\ lastOp'.id = "ArrowLeft")
          => focusedIndex' = max(focusedIndex - 1, 0)]_vars

C21_Witness ==
  /\ lastOp.op = "focusKey" /\ lastOp.id = "ArrowRight" /\ lastOp.index = 2
  /\ Len(steps) = 3 /\ focusedIndex = 2

\* C22: with N indicators, Home moves the focus from any index to index 0
\* and End moves it to index N-1.
C22_HomeEnd ==
  [][/\ (lastOp'.op \in {"activateKey", "focusKey"} /\ lastOp'.id = "Home")
          => focusedIndex' = 0
     /\ (lastOp'.op \in {"activateKey", "focusKey"} /\ lastOp'.id = "End")
          => focusedIndex' = Len(steps) - 1]_vars

C22_Witness ==
  /\ lastOp.op = "focusKey" /\ lastOp.id = "Home" /\ lastOp.index = 2
  /\ Len(steps) = 3 /\ focusedIndex = 0 /\ currentStep = 1

\* C23: whenever ActivePosition changes to a new value q, whatever operation
\* changed it, the input focus ends up on the indicator at position q.
C23_FocusFollowsActive ==
  [][currentStep' # currentStep
       => (focused' # NoFocus /\ focusedIndex' = currentStep')]_vars

C23_Witness ==
  /\ lastOp.op = "goToPrevious" /\ lastOp.index = 2 /\ Len(steps) = 3
  /\ currentStep = 1 /\ focusedIndex = 1

\* C24: in every reachable state the indicator at position i has tab index 0
\* iff i is ActivePosition and tab index -1 otherwise, so at most one
\* indicator is reachable by Tab and it is the active one.
C24_RovingTabIndex ==
  /\ \A i \in 0..(Len(steps) - 1) :
       /\ tabIndex(i) = 0 <=> i = currentStep
       /\ tabIndex(i) = -1 <=> i # currentStep
  /\ Cardinality({i \in 0..(Len(steps) - 1) : tabIndex(i) = 0}) <= 1

C24_Witness ==
  /\ lastOp.op = "focusKey" /\ Len(steps) = 3 /\ currentStep = 1
  /\ focusedIndex = 2
  /\ tabIndex(1) = 0 /\ tabIndex(0) = -1 /\ tabIndex(2) = -1

\* C25: in every reachable state the indicator of a registered step has a
\* panel linkage (aria-controls) equal to the identifier of that step's
\* panel, and the rendered panel's back-linkage (aria-labelledby) is the
\* identifier of the indicator of that same step, which is the selected one.
C25_TabPanelLinkage ==
  /\ \A k \in DOMAIN steps : \A u \in mounted :
       units[u].id = steps[k].id => ariaControls(k - 1) = panelId(u)
  /\ \A u \in rendering : \E k \in DOMAIN steps :
       /\ steps[k].id = units[u].id
       /\ ariaLabelledby(u) = indicatorId(k - 1)
       /\ ariaSelected(k - 1)

\* C26: a mounted Step unit with both callbacks calls onEnter exactly once
\* in each event that takes it from inactive to active and onExit exactly
\* once in each event that takes it from active to inactive, and nothing in
\* any other event; so its onEnter and onExit calls alternate.
C26_LifecycleCallbacks ==
  [][\A u \in Units :
       /\ (units[u] # NoUnit /\ units'[u] # NoUnit /\ units[u].onEnter /\ units[u].onExit)
            => /\ lifecycleCalls'[u] =
                    IF ~isActive(u) /\ isActive(u)' THEN <<"onEnter">>
                    ELSE IF isActive(u) /\ ~isActive(u)' THEN <<"onExit">>
                    ELSE <<>>
               /\ lifecycleCalls'[u] # <<>> => lifecycleCalls'[u][1] # lastCallback[u]
       /\ units[u] = NoUnit => lifecycleCalls'[u] = <<>>]_vars

C26_Witness ==
  /\ lastOp.op = "goToStep"
  /\ \E u, v \in Units :
       /\ lifecycleCalls[u] = <<"onEnter">> /\ isActive(u)
       /\ lifecycleCalls[v] = <<"onExit">> /\ units[v] # NoUnit /\ ~isActive(v)

\* C27: while a Step unit stays mounted, a change of its identity, position
\* or label does not modify the registry.
C27_RegisterOnce ==
  [][lastOp'.op = "update" => steps' = steps]_vars

\* C28: the identities in the registry are the identities of the mounted
\* Step units, each with exactly one entry.
C28_RegistryMatchesMounted ==
  /\ stepIdsOf(steps) = {units[u].id : u \in mounted}
  /\ Len(steps) = Cardinality(mounted)

C28_Witness ==
  /\ lastOp.op = "update" /\ lastOp.id \notin stepIdsOf(steps)
  /\ Len(steps) = 2 /\ Cardinality(mounted) = 2

C30_SerialNext ==
  [][(lastOp'.op = "goToNextTwice" /\ currentStep >= 0
        /\ currentStep + 2 <= Len(steps) - 1)
       => /\ currentStep' = currentStep + 2
          /\ {currentStep, currentStep + 1} \subseteq completedSteps']_vars

\* C31: the content callback of a Step unit is called only while the step is
\* active, with isActive true, isCompleted equal to isCompleted(position) of
\* the shared state, and the unit's own position and label; other content is
\* rendered as it is, and an inactive unit renders nothing.
C31_ContentCallback ==
  \A u \in mounted :
    /\ Step(u, "function").called # <<>> => isActive(u)
    /\ isActive(u)
         => /\ Step(u, "function").called =
                 <<[isActive |-> TRUE,
                    isCompleted |-> units[u].index \in completedSteps,
                    index |-> units[u].index, label |-> units[u].label]>>
            /\ Step(u, "content") = [called |-> <<>>, renders |-> "content"]
    /\ ~isActive(u) => \A c \in Children : Step(u, c).renders = "null"

C31_Witness ==
  /\ lastOp.op = "markStepCompleted" /\ lastOp.index = currentStep
  /\ \E u, v \in mounted :
       /\ isActive(u) /\ Step(u, "function").called[1].isCompleted
       /\ ~isActive(v) /\ Step(v, "function").called = <<>>

\* C32: in every reachable state the indicator list has exactly one
\* indicator per registry entry, in registry order, which is ascending by
\* position; so there are N indicators.
C32_OneIndicatorPerEntry ==
  /\ Len(indicators) = Len(steps)
  /\ \A k \in 1..Len(steps) :
       /\ indicators[k].key = steps[k].id
       /\ indicators[k].label = steps[k].label
       /\ indicators[k].index = k - 1
  /\ \A k \in 1..(Len(indicators) - 1) :
       \E i, j \in DOMAIN steps :
         /\ steps[i].id = indicators[k].key /\ steps[j].id = indicators[k + 1].key
         /\ steps[i].index <= steps[j].index

C32_Witness ==
  /\ lastOp.op = "unregisterStep" /\ lastOp.index = 3 /\ Len(indicators) = 2
  /\ indicators[1].key = "c" /\ indicators[2].key = "a"
  /\ indicators[1].label # indicators[2].label

\* C33: from ActivePosition p with 0 <= p < N-1, next() followed by
\* previous() leaves ActivePosition p again, the unit at position p renders
\* again, and CompletedSet differs from the start only by containing p.
C33_NextThenPrevious ==
  [][/\ (lastOp'.op = "goToNext" /\ currentStep >= 0 /\ currentStep < Len(steps) - 1)
          => /\ currentStep' = currentStep + 1
             /\ completedSteps' = completedSteps \cup {currentStep}
             /\ steps' = steps
     /\ (lastOp.op = "goToNext" /\ lastOp.index >= 0 /\ lastOp.index < Len(steps) - 1
           /\ lastOp'.op = "goToPrevious")
          => /\ currentStep' = lastOp.index
             /\ completedSteps' = completedSteps
             /\ lastOp.index \in completedSteps'
             /\ steps' = steps
             /\ rendering' = {u \in mounted : units[u].index = lastOp.index}]_vars

C33_Witness ==
  /\ lastOp.op = "goToPrevious" /\ lastOp.index = 2 /\ Len(steps) = 3
  /\ currentStep = 1 /\ completedSteps = {1} /\ rendering = {2}

\* C34: a key other than ArrowLeft, ArrowRight, Home, End, Enter and Space
\* on a focused indicator changes neither the focus nor ActivePosition nor
\* CompletedSet.
C34_OtherKeyNoop ==
  [][(lastOp'.op \in {"activateKey", "focusKey"}
        /\ lastOp'.id \notin {"ArrowLeft", "ArrowRight", "Home", "End", "Enter", " "})
       => /\ focused' = focused
          /\ currentStep' = currentStep
          /\ completedSteps' = completedSteps
          /\ steps' = steps
          /\ stepChangeCalls' = <<>>]_vars

C34_Witness ==
  /\ lastOp.op = "focusKey" /\ lastOp.id = "a" /\ lastOp.index = 2
  /\ Len(steps) = 3 /\ focusedIndex = 2 /\ currentStep = 0

\* C35: navigateTo, by an indicator click, Enter/Space or a direct call,
\* never changes CompletedSet; a position enters CompletedSet only through
\* next() called at it or through markCompleted of it.
C35_NavigateToKeepsCompleted ==
  [][/\ lastOp'.op \in {"goToStep", "click", "activateKey"}
          => completedSteps' = completedSteps
     /\ \A q \in completedSteps' \ completedSteps :
          \/ lastOp'.op = "goToNext" /\ q = currentStep
          \/ lastOp'.op = "markStepCompleted" /\ q = lastOp'.index]_vars

C35_Witness ==
  /\ lastOp.op = "click" /\ lastOp.index = 2 /\ Len(steps) = 3
  /\ currentStep = 2 /\ completedSteps = {}

C38_NoEnterAtMount ==
  [][\A u \in Units :
       /\ (units[u] = NoUnit /\ units'[u] # NoUnit)
            => lifecycleCalls'[u] = <<>>
       /\ (units[u] # NoUnit /\ units'[u] # NoUnit /\ isActive(u)
             /\ lastCallback[u] = "-" /\ lifecycleCalls'[u] # <<>>)
            => lifecycleCalls'[u] = <<"onExit">>
       /\ lifecycleCalls'[u] = <<"onEnter">>
            => (units[u] # NoUnit /\ ~isActive(u) /\ isActive(u)')]_vars

C38_Witness ==
  /\ lastOp.op = "goToStep" /\ currentStep = 1
  /\ lifecycleCalls[1] = <<"onExit">> /\ units[1].index = 0
  /\ lifecycleCalls[2] = <<"onEnter">>
====
